---- MODULE Spec2Model ----
(***************************************************************************)
(* Model of hichem.py (GitHub Advanced Project Assistant, version 4.2).    *)
(*                                                                         *)
(* Python dicts are functions with a string domain (records); a missing    *)
(* key is a key outside DOMAIN and raises KeyError.  A call returns either *)
(* Ok(v) or Raise(e); an exception nobody catches ends the run.            *)
(*                                                                         *)
(* Real numbers are fixed point.  issue_ratio and commit_frequency are     *)
(* held in 1/1000; the score and the five components of the scorer are     *)
(* held in 1/10000, so a score of 91.63 is 916300.                         *)
(***************************************************************************)
EXTENDS Integers, Sequences, FiniteSets, TLC

VARIABLES pc, exc, conn, filters, items, idx, processed, frames, results,
          httpLog, reports, arg, ret

vars == <<pc, exc, conn, filters, items, idx, processed, frames, results,
          httpLog, reports, arg, ret>>

\* ------------------------------------------------------------------ bounds
\* Largest number of items a search response carries in the model.
MaxItems == 2

\* ------------------------------------------------------------- CONFIG
max_results == 15
weight_activity == 35
weight_readability == 25
weight_health == 20
weight_popularity == 15
weight_ci_cd == 5

\* ------------------------------------------------------------- helpers
Ok(v) == [ok |-> TRUE, val |-> v]
Raise(e) == [ok |-> FALSE, exc |-> e]
Has(d, k) == k \in DOMAIN d
Max(a, b) == IF a >= b THEN a ELSE b
Min(a, b) == IF a <= b THEN a ELSE b
\* Python None
None == "None"
\* Python truthiness of a str-or-None value: None and "" are falsy
Truthy(v) == v # None /\ v # ""

\* a / b of Python (true division), in 1/1000, b # 0
TrueDiv(a, b) ==
    IF b > 0 THEN (a * 1000) \div b ELSE 0 - ((a * 1000) \div (0 - b))

\* math.log(n), in 1/1000, for the arguments the model uses
LogTable ==
    (1 :> 0) @@ (2 :> 693) @@ (3 :> 1099) @@ (8 :> 2079) @@ (100 :> 4605)
    @@ (1000001 :> 13816)

\* ------------------------------------------------- ProjectAnalyzer
\* analyze_readme: the README request raises, or answers with a status; on
\* 200 the text is measured by textstat, whose results come with the
\* response in the model.
count_hashes(content) ==
    Cardinality({i \in 1..Len(content) : content[i] = "#"})

analyze_readme(resp) ==
    IF resp.raises THEN Raise("RequestException")
    ELSE IF resp.status_code = 200
         THEN Ok([readme_exists |-> TRUE,
                  readability |-> resp.flesch,
                  grade_level |-> resp.grade,
                  sections |-> count_hashes(resp.text)])
         ELSE Ok([readme_exists |-> FALSE])

\* repo['age_days'] or 1
age_or_1(age) == IF age = 0 THEN 1 ELSE age

\* calculate_health: keys are read in the order of the source
calculate_health(repo) ==
    IF ~Has(repo, "pushed_at") THEN Raise("KeyError")
    ELSE IF ~repo.pushed_at.parses THEN Raise("ValueError")
    ELSE IF ~Has(repo, "open_issues") THEN Raise("KeyError")
    ELSE IF repo.open_issues > 0 /\ ~Has(repo, "closed_issues")
         THEN Raise("KeyError")
    ELSE IF ~Has(repo, "commits") THEN Raise("KeyError")
    ELSE IF ~Has(repo, "age_days") THEN Raise("KeyError")
    ELSE LET delta_days == repo.pushed_at.days_ago
         IN  Ok([activity_score |-> Max(0, 100 - delta_days),
                 issue_ratio |-> IF repo.open_issues > 0
                                 THEN TrueDiv(repo.closed_issues,
                                              repo.open_issues)
                                 ELSE 1000,
                 commit_frequency |-> TrueDiv(repo.commits,
                                              age_or_1(repo.age_days))])

\* ------------------------------------------------------ HybridRanker
\* the five components, in 1/10000
activity_component(repo) == repo.health.activity_score * 100
readability_component(repo) ==
    IF repo.readme.readme_exists THEN repo.readme.readability * 100
    ELSE 3000
health_component(repo) ==
    repo.health.issue_ratio * 5 + repo.health.commit_frequency * 5
popularity_component(repo) == LogTable[repo.stargazers_count + 1] * 4
ci_cd_component(repo) == IF repo.metadata.ci_cd THEN 10000 ELSE 3000

\* total * 100, in 1/10000
total_times_100(repo) ==
      activity_component(repo) * weight_activity
    + readability_component(repo) * weight_readability
    + health_component(repo) * weight_health
    + popularity_component(repo) * weight_popularity
    + ci_cd_component(repo) * weight_ci_cd

\* min(max(total * 100, 0), 100)
clampNoCeiling(t) == Max(t, 0)
clamp(t) == Min(Max(t, 0), 1000000)

\* the exception calculate_score raises on repo, "" when it raises none
score_error(repo) ==
    IF ~Has(repo, "health") THEN "KeyError"
    ELSE IF ~Has(repo.health, "activity_score") THEN "KeyError"
    ELSE IF ~Has(repo, "readme") THEN "KeyError"
    ELSE IF ~Has(repo.readme, "readme_exists") THEN "KeyError"
    ELSE IF repo.readme.readme_exists /\ ~Has(repo.readme, "readability")
         THEN "KeyError"
    ELSE IF ~Has(repo.health, "issue_ratio") THEN "KeyError"
    ELSE IF ~Has(repo.health, "commit_frequency") THEN "KeyError"
    ELSE IF ~Has(repo, "stargazers_count") THEN "KeyError"
    ELSE IF repo.stargazers_count + 1 <= 0 THEN "ValueError"
    ELSE IF ~Has(repo, "metadata") THEN "KeyError"
    ELSE IF ~Has(repo.metadata, "ci_cd") THEN "KeyError"
    ELSE ""

calculate_score(repo) ==
    IF score_error(repo) # "" THEN Raise(score_error(repo))
    ELSE Ok(clamp(total_times_100(repo)))

\* ------------------------------------------------------- HICHEM_Core
Drop(d, k) == [x \in DOMAIN d \ {k} |-> d[x]]

\* _build_search_url: filters is a non-empty dict holding both keys, so both
\* qualifiers are appended to q
_build_search_url(query, f) ==
    [q |-> <<query, " stars:>=", f.min_stars, " license:", f.license>>,
     sort |-> "stars", order |-> "desc", per_page |-> max_results]

\* full_data.get('license', {}).get('name'); None.get raises AttributeError
license_name(full_data) ==
    IF ~Has(full_data, "license") THEN Ok(None)
    ELSE IF full_data.license.null THEN Raise("AttributeError")
    ELSE IF Has(full_data.license, "name") THEN Ok(full_data.license.name)
    ELSE Ok(None)

\* a call of _process_repo that ended in an exception
Failed(e, http, frame) ==
    [ok |-> FALSE, exc |-> e, http |-> http, frame |-> frame]

\* _process_repo(item), with the answers of the two requests it makes.
\* frame is the call's locals when it ended; http the requests it issued.
_process_repo(item, dresp, rresp) ==
    IF ~Has(item, "url") THEN Failed("KeyError", <<>>, [stage |-> "url"])
    ELSE LET http1 == <<[kind |-> "detail", url |-> item.url]>> IN
    IF dresp.raises
    THEN Failed("RequestException", http1, [stage |-> "detail"])
    ELSE IF ~dresp.is_json
    THEN Failed("JSONDecodeError", http1, [stage |-> "detail"])
    ELSE LET full_data == dresp.body IN
    IF \/ ~Has(item, "name") \/ ~Has(item, "description")
       \/ ~Has(item, "stargazers_count") \/ ~Has(item, "forks_count")
       \/ ~Has(item, "full_name")
    THEN Failed("KeyError", http1, [stage |-> "item"])
    ELSE LET http2 == Append(http1, [kind |-> "readme",
                                     url |-> item.full_name])
             readme == analyze_readme(rresp) IN
    IF ~readme.ok
    THEN Failed(readme.exc, http2, [stage |-> "readme"])
    ELSE LET health == calculate_health(full_data) IN
    IF ~health.ok
    THEN Failed(health.exc, http2,
                [stage |-> "health", readme |-> readme.val,
                 full_data |-> full_data])
    ELSE LET lic == license_name(full_data) IN
    IF ~lic.ok \/ ~Has(full_data, "has_workflows")
       \/ ~Has(full_data, "has_tests")
    THEN Failed(IF ~lic.ok THEN lic.exc ELSE "KeyError", http2,
                [stage |-> "metadata", readme |-> readme.val,
                 health |-> health.val, full_data |-> full_data])
    ELSE LET metadata == [license |-> lic.val,
                          ci_cd |-> full_data.has_workflows,
                          tests |-> full_data.has_tests]
             score == calculate_score(full_data) IN
    IF ~score.ok
    THEN Failed(score.exc, http2,
                [stage |-> "score", readme |-> readme.val,
                 health |-> health.val, metadata |-> metadata,
                 stars |-> item.stargazers_count, scored |-> full_data])
    ELSE [ok |-> TRUE,
          val |-> [name |-> item.name,
                   description |-> item.description,
                   stars |-> item.stargazers_count,
                   forks |-> item.forks_count,
                   readme |-> readme.val,
                   health |-> health.val,
                   metadata |-> metadata,
                   score |-> score.val],
          http |-> http2,
          frame |-> [stage |-> "done", readme |-> readme.val,
                     health |-> health.val, metadata |-> metadata,
                     stars |-> item.stargazers_count,
                     scored |-> full_data]]

\* sorted(processed, key=score, reverse=True): a stable sort; with keep_ties
\* an element goes behind the elements of equal score that precede it
RECURSIVE insertion_sort(_, _)
insertion_sort(seq, keep_ties) ==
    IF seq = <<>> THEN <<>>
    ELSE LET n == Len(seq)
             head == insertion_sort(SubSeq(seq, 1, n - 1), keep_ties)
             x == seq[n]
             k == Cardinality({i \in 1..Len(head) :
                                 IF keep_ties
                                 THEN head[i].score >= x.score
                                 ELSE head[i].score > x.score})
         IN  SubSeq(head, 1, k) \o <<x>> \o SubSeq(head, k + 1, Len(head))

sorted_ties_reversed(seq) == insertion_sort(seq, FALSE)
sorted_by_score(seq) == insertion_sort(seq, TRUE)

\* v or fallback, for a str-or-None v
or_else(v, fallback) == IF Truthy(v) THEN v ELSE fallback

\* _draw_health_metrics: the three values drawn
_draw_health_metrics(repo) ==
    <<<<"Activity", repo.health.activity_score>>,
      <<"Issue Management", repo.health.issue_ratio * 100>>,
      <<"Commit Frequency", repo.health.commit_frequency>>>>

\* generate_report: the file is written by c.save(), the last statement;
\* an exception before it leaves no report
generate_report(repo) ==
    IF ~Has(repo, "name") \/ ~Has(repo, "description")
       \/ ~Has(repo, "stars") \/ ~Has(repo, "forks")
       \/ ~Has(repo, "pushed_at")
       \/ ~Has(repo, "metadata") \/ ~Has(repo, "health")
    THEN Raise("KeyError")
    ELSE Ok([filename |-> <<"HICHEM_", repo.name, "_Report.pdf">>,
             title |-> repo.name,
             description_line |-> or_else(repo.description,
                                          "No description"),
             stars_line |-> <<repo.stars, repo.forks>>,
             updated_line |-> repo.pushed_at,
             license_line |-> or_else(repo.metadata.license, "Unknown"),
             metrics |-> _draw_health_metrics(repo)])

\* ------------------------------------------------- the environment
\* what the search endpoint lists: name, description, stars, forks
Item(n, d) ==
    [name |-> n, description |-> d, stargazers_count |-> 7,
     forks_count |-> 1, full_name |-> n, url |-> n]

Items ==
    {Item("a", None), Item("b", ""), Item("b", "d"),
     Drop(Item("a", "d"), "description")}

RECURSIVE SeqsUpTo(_, _)
SeqsUpTo(S, n) ==
    IF n = 0 THEN {<<>>}
    ELSE LET shorter == SeqsUpTo(S, n - 1)
         IN  shorter \cup {Append(q, x) : q \in shorter, x \in S}

SearchResponses ==
    {[raises |-> TRUE], [raises |-> FALSE, is_json |-> FALSE],
     [raises |-> FALSE, is_json |-> TRUE, body |-> [message |-> "limit"]]}
    \cup {[raises |-> FALSE, is_json |-> TRUE, body |-> [items |-> q]] :
            q \in SeqsUpTo(Items, MaxItems)}

\* the fields of the detail endpoint
Plain ==
    [pushed_at |-> [parses |-> TRUE, days_ago |-> 10],
     closed_issues |-> 5, open_issues |-> 0, commits |-> 30,
     age_days |-> 30, license |-> [null |-> FALSE, name |-> "MIT"],
     has_workflows |-> TRUE, has_tests |-> TRUE, stargazers_count |-> 99]

\* a detail that also carries the keys calculate_score reads
High ==
    [health |-> [activity_score |-> 90, issue_ratio |-> 1000,
                 commit_frequency |-> 1000],
     readme |-> [readme_exists |-> TRUE, readability |-> 50],
     metadata |-> [ci_cd |-> TRUE]] @@ Plain
Low ==
    [health |-> [activity_score |-> 0, issue_ratio |-> 0,
                 commit_frequency |-> 0],
     readme |-> [readme_exists |-> FALSE],
     metadata |-> [ci_cd |-> FALSE]] @@ Plain

DetailKeys ==
    {"pushed_at", "open_issues", "closed_issues", "commits", "age_days",
     "has_workflows", "has_tests", "license", "stargazers_count", "health",
     "readme", "metadata"}

DetailBodies ==
    {Plain, High, Low}
    \cup {Drop(High, k) : k \in DetailKeys}
    \cup {[High EXCEPT !.age_days = a] : a \in {0, 0 - 2}}
    \cup {[High EXCEPT !.license = l] : l \in {[null |-> TRUE],
                                               [null |-> FALSE]}}
    \cup {[High EXCEPT !.open_issues = 2],
          [Drop(High, "closed_issues") EXCEPT !.open_issues = 2],
          [High EXCEPT !.pushed_at = [parses |-> FALSE]]}

DetailResponses ==
    {[raises |-> TRUE], [raises |-> FALSE, is_json |-> FALSE]}
    \cup {[raises |-> FALSE, is_json |-> TRUE, body |-> b] :
            b \in DetailBodies}

ReadmeResponses ==
    {[raises |-> TRUE], [raises |-> FALSE, status_code |-> 404],
     [raises |-> FALSE, status_code |-> 200, text |-> <<"#", "a", "#">>,
      flesch |-> 60, grade |-> "8th grade"]}

\* what the user types at the two prompts that matter
MinStarsTexts == {"", "5", "x"}
LicenseTexts == {"", "mit"}

\* ------------------------------------------------------ the run
NoExc == <<>>

Init ==
    /\ pc = "construct"
    /\ exc = NoExc
    /\ conn = "untested"
    /\ filters = <<>>
    /\ items = <<>>
    /\ idx = 1
    /\ processed = <<>>
    /\ frames = <<>>
    /\ results = <<>>
    /\ httpLog = <<>>
    /\ reports = <<>>
    /\ arg = <<>>
    /\ ret = <<>>

Crash(e, where) ==
    /\ pc' = "crashed"
    /\ exc' = <<e, where>>

\* HICHEM_Core(): SSHVault._setup_ssh makes the key when there is none
Construct ==
    /\ pc = "construct"
    /\ \E key_exists \in BOOLEAN, keygen_ok \in BOOLEAN :
         IF ~key_exists /\ ~keygen_ok
         THEN Crash("CalledProcessError", "generate_keys")
         ELSE pc' = "test" /\ exc' = exc
    /\ UNCHANGED <<conn, filters, items, idx, processed, frames, results,
                   httpLog, reports, arg, ret>>

\* SSHVault.test_connection: an exception of the ssh call is caught
test_connection(outcome) == outcome = "authenticated"

TestConnection ==
    /\ pc = "test"
    /\ \E outcome \in {"authenticated", "denied", "timeout"} :
         conn' = IF test_connection(outcome) THEN "ok" ELSE "failed"
    /\ pc' = "gate"
    /\ UNCHANGED <<exc, filters, items, idx, processed, frames, results,
                   httpLog, reports, arg, ret>>

\* if not hichem.ssh.test_connection(): ... exit(1)
gate_ignored == conn \in {"ok", "failed"}
gate_open == conn = "ok"

GateAbort ==
    /\ pc = "gate"
    /\ ~gate_open
    /\ pc' = "exit1"
    /\ UNCHANGED <<exc, conn, filters, items, idx, processed, frames,
                   results, httpLog, reports, arg, ret>>

\* the prompts: int(input(...) or 0) raises on text that is no number
ReadInput ==
    /\ pc = "gate"
    /\ gate_open
    /\ \E stars \in MinStarsTexts, lic \in LicenseTexts :
         IF stars = "x"
         THEN Crash("ValueError", "input") /\ filters' = filters
         ELSE /\ filters' = [min_stars |-> IF stars = "" THEN 0 ELSE 5,
                             license |-> lic]
              /\ pc' = "search"
              /\ exc' = exc
    /\ UNCHANGED <<conn, items, idx, processed, frames, results, httpLog,
                   reports, arg, ret>>

\* search_projects, up to the loop: the search request and its items
SearchFetch ==
    /\ pc = "search"
    /\ httpLog' = Append(httpLog,
                         [kind |-> "search",
                          url |-> _build_search_url("kw", filters)])
    /\ \E resp \in SearchResponses :
         IF resp.raises
         THEN Crash("RequestException", "search_projects") /\ items' = items
         ELSE IF ~resp.is_json
         THEN Crash("JSONDecodeError", "search_projects") /\ items' = items
         ELSE /\ items' = IF Has(resp.body, "items")
                          THEN SubSeq(resp.body.items, 1,
                                      Min(Len(resp.body.items), max_results))
                          ELSE <<>>
              /\ pc' = "enrich"
              /\ exc' = exc
    /\ UNCHANGED <<conn, filters, idx, processed, frames, results, reports,
                   arg, ret>>

\* one turn of the loop of search_projects
ProcessRepo ==
    /\ pc = "enrich"
    /\ idx <= Len(items)
    /\ \E dresp \in DetailResponses, rresp \in ReadmeResponses :
         LET r == _process_repo(items[idx], dresp, rresp)
         IN  /\ httpLog' = httpLog \o r.http
             /\ frames' = Append(frames, r.frame)
             /\ IF r.ok
                THEN /\ processed' = Append(processed, r.val)
                     /\ idx' = idx + 1
                     /\ UNCHANGED <<pc, exc>>
                ELSE /\ Crash(r.exc, "_process_repo")
                     /\ UNCHANGED <<processed, idx>>
    /\ UNCHANGED <<conn, filters, items, results, reports, arg, ret>>

\* the return of search_projects
SortResults ==
    /\ pc = "enrich"
    /\ idx > Len(items)
    /\ results' = sorted_by_score(processed)
    /\ pc' = "print"
    /\ UNCHANGED <<exc, conn, filters, items, idx, processed, frames,
                   httpLog, reports, arg, ret>>

\* the ranked list on the terminal
PrintResults ==
    /\ pc = "print"
    /\ pc' = "report"
    /\ UNCHANGED <<exc, conn, filters, items, idx, processed, frames,
                   results, httpLog, reports, arg, ret>>

\* if results: hichem.generate_report(results[0])
Report ==
    /\ pc = "report"
    /\ IF results = <<>>
       THEN pc' = "done" /\ UNCHANGED <<exc, reports>>
       ELSE LET r == generate_report(results[1])
            IN  IF r.ok
                THEN /\ reports' = Append(reports, r.val)
                     /\ pc' = "done"
                     /\ exc' = exc
                ELSE Crash(r.exc, "generate_report") /\ reports' = reports
    /\ UNCHANGED <<conn, filters, items, idx, processed, frames, results,
                   httpLog, arg, ret>>

Next ==
    \/ Construct
    \/ TestConnection
    \/ GateAbort
    \/ ReadInput
    \/ SearchFetch
    \/ ProcessRepo
    \/ SortResults
    \/ PrintResults
    \/ Report

Spec == Init /\ [][Next]_vars

\* --------------------------------------------- the functions on their own
\* The scorer and the health calculator applied to inputs of every shape:
\* Init draws the input, one action applies the function.
ScoreInputs ==
    {[health |-> [activity_score |-> a, issue_ratio |-> ir,
                  commit_frequency |-> cf],
      readme |-> rd, stargazers_count |-> st, metadata |-> [ci_cd |-> ci]] :
        a \in {0 - 20, 0, 50, 100, 400},
        ir \in {0, 1000, 50000},
        cf \in {0 - 2000, 0, 1000, 900000},
        rd \in {[readme_exists |-> FALSE]}
               \cup {[readme_exists |-> TRUE, readability |-> r] :
                       r \in {0 - 300, 0, 60, 121}},
        st \in {0 - 1, 0, 1, 99, 1000000},
        ci \in BOOLEAN}

HealthKeys ==
    {"pushed_at", "closed_issues", "open_issues", "commits", "age_days"}

FullHealthInputs ==
    {[pushed_at |-> [parses |-> TRUE, days_ago |-> d], closed_issues |-> 5,
      open_issues |-> o, commits |-> c, age_days |-> g] :
        d \in {0 - 3, 0, 10, 150}, o \in {0, 2}, c \in {0, 30},
        g \in {0 - 2, 0 - 1, 0, 1, 2, 30}}

HealthInputs ==
    FullHealthInputs
    \cup {Drop(h, k) : h \in FullHealthInputs, k \in HealthKeys}

InitUnit ==
    /\ pc = "call"
    /\ exc = NoExc
    /\ conn = "untested"
    /\ filters = <<>>
    /\ items = <<>>
    /\ idx = 1
    /\ processed = <<>>
    /\ frames = <<>>
    /\ results = <<>>
    /\ httpLog = <<>>
    /\ reports = <<>>
    /\ arg \in {[fn |-> "calculate_score", input |-> x] : x \in ScoreInputs}
          \cup {[fn |-> "calculate_health", input |-> x] :
                  x \in HealthInputs}
    /\ ret = <<>>

CallScore ==
    /\ pc = "call"
    /\ arg.fn = "calculate_score"
    /\ ret' = calculate_score(arg.input)
    /\ pc' = "returned"
    /\ UNCHANGED <<exc, conn, filters, items, idx, processed, frames,
                   results, httpLog, reports, arg>>

CallHealth ==
    /\ pc = "call"
    /\ arg.fn = "calculate_health"
    /\ ret' = calculate_health(arg.input)
    /\ pc' = "returned"
    /\ UNCHANGED <<exc, conn, filters, items, idx, processed, frames,
                   results, httpLog, reports, arg>>

NextUnit == CallScore \/ CallHealth

SpecUnit == InitUnit /\ [][NextUnit]_vars

\* ================================================================ claims

ScoreReturned == pc = "returned" /\ arg.fn = "calculate_score"
HealthReturned == pc = "returned" /\ arg.fn = "calculate_health"

\* C1: for every input record with a star count of 0 or more,
\* calculate_score returns a value, and every value it returns lies in
\* [0, 100] (0 to 1000000 in 1/10000).
C1_ScoreInRange ==
    ScoreReturned =>
        /\ arg.input.stargazers_count >= 0 => ret.ok
        /\ ret.ok => 0 <= ret.val /\ ret.val <= 1000000

\* the weighted sum is above 100 and the score returned is 100
C1_Witness ==
    /\ ScoreReturned
    /\ ret.ok
    /\ total_times_100(arg.input) > 1000000
    /\ ret.val = 1000000

\* C2: an item whose enrichment fails stays in the batch with score 0 and
\* the run goes on.
C2_FailureKeepsBatch ==
    \A i \in 1..Len(frames) :
        frames[i].stage # "done" =>
            /\ pc # "crashed"
            /\ i <= Len(processed)
            /\ processed[i].score = 0

\* C3: search, detail and README requests and the report happen only after
\* a successful connectivity test; after a failed test the run ends with
\* none of them.
C3_GateBeforeRequests ==
    /\ (httpLog # <<>> \/ reports # <<>>) => conn = "ok"
    /\ conn = "failed" => pc \in {"gate", "exit1"}

C3_Witness == pc = "exit1" /\ conn = "failed" /\ httpLog = <<>>

\* search_projects has returned
Returned ==
    \/ pc \in {"print", "report", "done"}
    \/ pc = "crashed" /\ exc[2] = "generate_report"

ScoresOf(seq) == {seq[i].score : i \in 1..Len(seq)}
WithScore(seq, v) == LET Is(r) == r.score = v IN SelectSeq(seq, Is)

\* C4: the list search_projects returns is in order of non-increasing
\* score, and the records of one score are in the order their items had in
\* the response.
C4_SortedStable ==
    Returned =>
        /\ Len(results) = Len(processed)
        /\ \A i \in 1..Len(results) : \A j \in 1..Len(results) :
             i < j => results[i].score >= results[j].score
        /\ \A v \in ScoresOf(processed) :
             WithScore(results, v) = WithScore(processed, v)

\* two different records of one score in the returned list
C4_Witness ==
    /\ Returned
    /\ \E i \in 1..Len(results) : \E j \in 1..Len(results) :
         /\ i < j
         /\ results[i].score = results[j].score
         /\ results[i].name # results[j].name

\* C5: calculate_health on a detail that lacks a required key returns an
\* empty metrics object and raises nothing.
C5_MissingKeyEmptyMetrics ==
    (HealthReturned /\ ~(HealthKeys \subseteq DOMAIN arg.input)) =>
        ret.ok /\ DOMAIN ret.val = {}

\* C6: an item whose README analysis has readme_exists = false is scored
\* with a readability component of 0.3, without error.
C6_MissingReadmeFallback ==
    \A i \in 1..Len(frames) :
        (frames[i].stage \in {"score", "done"}
            /\ ~frames[i].readme.readme_exists) =>
            /\ frames[i].stage = "done"
            /\ readability_component(frames[i].scored) = 3000

\* C7: for every integer age_days, calculate_health returns
\* commit_frequency = commits / max(age_days, 1).
C7_CommitFrequencyMaxAge ==
    (HealthReturned /\ HealthKeys \subseteq DOMAIN arg.input) =>
        /\ ret.ok
        /\ ret.val.commit_frequency =
             TrueDiv(arg.input.commits, Max(arg.input.age_days, 1))

\* C8: a run whose search returned at least one record ends with exactly
\* one report, the report of the first record of the sorted list; a run
\* whose search returned none ends with no report.
C8_OneReportForTop ==
    (pc \in {"done", "crashed"} /\ conn = "ok") =>
        /\ results # <<>> =>
             Len(reports) = 1 /\ reports[1].title = results[1].name
        /\ (pc = "done" /\ results = <<>>) => reports = <<>>

\* generate_report was called
ReportCalled ==
    \/ pc = "done" /\ results # <<>>
    \/ pc = "crashed" /\ exc[2] = "generate_report"

\* C9: the report of an enriched record shows "No description" for a
\* description of None and the description otherwise, "Unknown" for an
\* absent license and the license otherwise.
C9_ReportFallbackLines ==
    ReportCalled =>
        /\ Len(reports) = 1
        /\ reports[1].description_line =
             (IF results[1].description = None THEN "No description"
              ELSE results[1].description)
        /\ reports[1].license_line =
             (IF results[1].metadata.license = None THEN "Unknown"
              ELSE results[1].metadata.license)

\* the record of the item's own README analysis, health metrics, star
\* count and CI flag
Merged(f) ==
    [readme |-> f.readme, health |-> f.health,
     stargazers_count |-> f.stars, metadata |-> f.metadata]

\* C10: the scorer is called on the merged record of the item, and the
\* score of the returned record is the score of those values.
C10_ScoresMergedRecord ==
    \A i \in 1..Len(frames) :
        frames[i].stage \in {"score", "done"} =>
            /\ Has(frames[i].scored, "readme")
            /\ frames[i].scored.readme = frames[i].readme
            /\ Has(frames[i].scored, "health")
            /\ frames[i].scored.health = frames[i].health
            /\ frames[i].stage = "done"
            /\ processed[i].score = calculate_score(Merged(frames[i])).val

====
